---- MODULE Spec2Model ----
(***************************************************************************)
(* Fruit Catcher: the GameEngine class of src/js/gameEngine.js as a state  *)
(* machine.  Every scheduled callback (countdown interval, spawn timeout,  *)
(* animation frame) and every public method is one action; the methods are *)
(* operators on a record S holding the engine's fields, the host's pending *)
(* callbacks and the observers' logs, applied in the order the code calls   *)
(* them.  Vertical positions and speeds are kept in half units (y2 = 2*y,  *)
(* speed2 = 2*speed) because speeds are multiples of 0.5.  The three       *)
(* callbacks (onScoreChange, onGameEnd, onGameStateUpdate) are installed   *)
(* and only observe: each invocation is logged and returns (SpecWired      *)
(* instead follows the callbacks main.js installs).  Handles are the least *)
(* ids the host has not in use (null is 0); probabilities and              *)
(* Math.random() draws are in thousandths.                                 *)
(***************************************************************************)
EXTENDS Integers, Sequences, FiniteSets, TLC

VARIABLES
  score, level, timeLimit, isGameActive, gameTimer,
  basketPosition, items, animationId, itemSpawnTimer,
  intervals,      \* host: ids of the setInterval callbacks still installed
  timeouts,       \* host: ids of the pending setTimeout callbacks
  frames,         \* host: ids of the pending requestAnimationFrame callbacks
  op,             \* observers: the handler that ran latest
  out,            \* observers: the callbacks invoked by the latest handler, in order
  ends,           \* observers: (score, level) of every onGameEnd since the latest start()
  stopCalled,     \* history: stop() has been called since the latest start()
  frozen,         \* history: the engine state at the moment the active flag became false
  config,         \* history: the config of the latest start() ({} = no timeLimit given)
  nStarts,        \* history: number of start() calls
  firings,        \* history: countdown firings since the latest start()
  touched,        \* history: since the latest start(), an item was collected or stop() came from outside
  ticks,          \* history: frames run by a short game since its start() (0 in the long game)
  base,           \* history: the score held when the run was first observed
  stack,          \* host: the calls entered and not yet returned, innermost last
  thrown          \* host: the error that ended the latest handler, "" if none

vars == << score, level, timeLimit, isGameActive, gameTimer, basketPosition, items,
           animationId, itemSpawnTimer, intervals, timeouts, frames, op, out, ends,
           stopCalled, frozen, config, nStarts, firings, touched, ticks, base, stack, thrown >>

---------------------------------------------------------------------------
(* Bounds of the model.  One game of a run is played at length: the first, *)
(* if it was started with the default configuration; it is not stopped     *)
(* from outside and its countdown is not fired.  Every other game is short. *)
(* Items are spawned in bursts: the spawn timeout is fired only while       *)
(* nothing is falling or the newest item has not been advanced yet.         *)

\* the spawn timeout is not fired while this many items are falling
MaxItems == 2
\* start() is called at most this many times in a run
MaxStarts == 2
\* stop() is not called from outside once this many end notifications were delivered
MaxEnds == 2
\* a countdown interval is fired at most this many times per short game
MaxFirings == 2
\* a short game runs at most this many frames
MaxFrames == 1
\* the spawn timeout is not fired once the score exceeds this many hundreds
MaxScore100 == 10
\* a run observed from the middle of a game begins at one of the levels 1..MaxLateLevel
\* or at FastLevel, in a game started with a time limit of LateLimit seconds, and its
\* spawn timeout is not fired once this many hundreds were scored since
MaxLateLevel == 6
FastLevel == 115
LateLimit == 3600
MaxLateGain100 == 0
\* the host's call stack holds at most this many calls
MaxStack == 30

(* Inputs *)

\* the timeLimit options passed to start(): {} = none given
Configs == { {}, {0}, {1}, {2}, {-1} }
\* Math.random() draws, in thousandths, for the lane and for the category
LaneDraws == { 400 }
TypeDraws == { 300, 800, 950 }
\* the names passed to onPoseDetected
Poses == { "Left", "Center", "Right", "Jump" }

---------------------------------------------------------------------------
(* Program constants *)

Null == 0
DefaultTimeLimit == 60
PlayAreaHeight2 == 1200
catcherY2 == 1000
hitRange2 == 60
SpawnY2 == -100
LevelStep == 500

itemTypes ==
  << [type |-> "apple",  score |-> 100, speed |-> 5, probability |-> 600],
     [type |-> "orange", score |-> 200, speed |-> 7, probability |-> 300],
     [type |-> "bomb",   score |-> 0,   speed |-> 6, probability |-> 100] >>

Max(a, b) == IF a >= b THEN a ELSE b
Abs(a) == IF a >= 0 THEN a ELSE -a

\* the least id (>= 1) the host has not handed out among `used`
FreshId(used) == CHOOSE n \in 1..(Cardinality(used) + 1) : n \notin used

RemoveAt(s, i) == SubSeq(s, 1, i - 1) \o SubSeq(s, i + 1, Len(s))

---------------------------------------------------------------------------
(* The engine's fields, the host's pending callbacks and the observers' logs *)
(* as one record, so that the methods compose as the code calls them.        *)

Cur ==
  [ score |-> score, level |-> level, timeLimit |-> timeLimit,
    isGameActive |-> isGameActive, gameTimer |-> gameTimer,
    basketPosition |-> basketPosition, items |-> items,
    animationId |-> animationId, itemSpawnTimer |-> itemSpawnTimer,
    intervals |-> intervals, timeouts |-> timeouts, frames |-> frames,
    out |-> << >>, ends |-> ends, stopCalled |-> stopCalled, frozen |-> frozen,
    config |-> config, nStarts |-> nStarts, firings |-> firings, touched |-> touched,
    ticks |-> ticks, stack |-> stack, thrown |-> thrown,
    seenIds |-> { items[i].id : i \in DOMAIN items } ]

Commit(S) ==
  /\ score' = S.score
  /\ level' = S.level
  /\ timeLimit' = S.timeLimit
  /\ isGameActive' = S.isGameActive
  /\ gameTimer' = S.gameTimer
  /\ basketPosition' = S.basketPosition
  /\ items' = S.items
  /\ animationId' = S.animationId
  /\ itemSpawnTimer' = S.itemSpawnTimer
  /\ intervals' = S.intervals
  /\ timeouts' = S.timeouts
  /\ frames' = S.frames
  /\ out' = S.out
  /\ ends' = S.ends
  /\ stopCalled' = S.stopCalled
  /\ frozen' = S.frozen
  /\ config' = S.config
  /\ nStarts' = S.nStarts
  /\ firings' = S.firings
  /\ touched' = S.touched
  /\ ticks' = S.ticks
  /\ base' = base
  /\ stack' = S.stack
  /\ thrown' = S.thrown

\* the part of the engine state that a stopped engine is to keep
Snapshot(S) ==
  [ score |-> S.score, level |-> S.level, items |-> S.items,
    basketPosition |-> S.basketPosition, timeLimit |-> S.timeLimit ]

NoSnapshot == [ score |-> -1, level |-> -1, items |-> << >>,
                basketPosition |-> -1, timeLimit |-> 0 ]

\* one invocation of an observer callback, with what the engine held at that moment
\* (arg: the id of the item concerned or the delay asked of setTimeout, else 0;
\* type: the category of the item concerned, else "")
Event(kind, S, arg, type) ==
  [ ev |-> kind, score |-> S.score, level |-> S.level, time |-> S.timeLimit,
    active |-> S.isGameActive, late |-> S.stopCalled, arg |-> arg, type |-> type ]

Emit(S, kind, arg, type) == [S EXCEPT !.out = Append(@, Event(kind, S, arg, type))]

TimerIds(S) == S.intervals \cup S.timeouts

NewTimerId(S) == FreshId(TimerIds(S) \cup {S.gameTimer, S.itemSpawnTimer})

NewFrameId(S) == FreshId(S.frames \cup {S.animationId})

---------------------------------------------------------------------------
(* GameEngine methods *)

notifyStateUpdate(S) == Emit(S, "state", 0, "")

clearTimer(S) ==
  IF S.gameTimer # Null
  THEN [S EXCEPT !.intervals = @ \ {S.gameTimer}, !.gameTimer = Null]
  ELSE S

stop(S) ==
  LET S1 == [S EXCEPT !.isGameActive = FALSE,
                      !.stopCalled = TRUE,
                      !.frozen = IF S.isGameActive \/ ~S.stopCalled
                                 THEN Snapshot(S) ELSE @]
      S2 == clearTimer(S1)
      S3 == IF S2.animationId # Null
            THEN [S2 EXCEPT !.frames = @ \ {S2.animationId}, !.animationId = Null]
            ELSE S2
      S4 == IF S3.itemSpawnTimer # Null
            THEN [S3 EXCEPT !.timeouts = @ \ {S3.itemSpawnTimer},
                            !.itemSpawnTimer = Null]
            ELSE S3
  IN  [Emit(S4, "end", 0, "") EXCEPT !.ends = Append(@, << S4.score, S4.level >>)]

startTimer(S) ==
  LET id == NewTimerId(S)
  IN  [S EXCEPT !.gameTimer = id, !.intervals = @ \cup {id}]

\* countdown with the expiry test off by one (< instead of <=)
countdown_late(S) ==
  LET S1 == [S EXCEPT !.timeLimit = @ - 1, !.firings = @ + 1]
      S2 == notifyStateUpdate(S1)
  IN  IF S2.timeLimit < 0 THEN stop(S2) ELSE S2

\* the callback startTimer installs
countdown(S) ==
  LET S1 == [S EXCEPT !.timeLimit = @ - 1, !.firings = @ + 1]
      S2 == notifyStateUpdate(S1)
  IN  IF S2.timeLimit <= 0 THEN stop(S2) ELSE S2

RECURSIVE pickType(_, _, _)
\* the cumulative-probability walk over itemTypes, from entry k with sum cum
pickType(rand, k, cum) ==
  IF k > Len(itemTypes) THEN itemTypes[1]
  ELSE IF rand <= cum + itemTypes[k].probability THEN itemTypes[k]
  ELSE pickType(rand, k + 1, cum + itemTypes[k].probability)

\* spawnItem with the two level tests exchanged (orange from level 3, bomb from level 2)
spawnItem_swapped(S, laneDraw, typeDraw) ==
  LET laneIndex == (laneDraw * 3) \div 1000
      drawn == pickType(typeDraw, 1, 0)
      gated1 == IF S.level < 3 /\ drawn.type = "orange" THEN itemTypes[1] ELSE drawn
      selectedType == IF S.level < 2 /\ gated1.type = "bomb" THEN itemTypes[1] ELSE gated1
      newItem == [ id |-> FreshId(S.seenIds \cup { S.items[i].id : i \in DOMAIN S.items }),
                   type |-> selectedType.type,
                   score |-> selectedType.score,
                   speed2 |-> 2 * selectedType.speed + S.level,
                   lane |-> laneIndex,
                   y2 |-> SpawnY2 ]
  IN  [S EXCEPT !.items = Append(@, newItem)]

spawnItem(S, laneDraw, typeDraw) ==
  LET laneIndex == (laneDraw * 3) \div 1000
      drawn == pickType(typeDraw, 1, 0)
      gated1 == IF S.level < 2 /\ drawn.type = "orange" THEN itemTypes[1] ELSE drawn
      selectedType == IF S.level < 3 /\ gated1.type = "bomb" THEN itemTypes[1] ELSE gated1
      newItem == [ id |-> FreshId(S.seenIds \cup { S.items[i].id : i \in DOMAIN S.items }),
                   type |-> selectedType.type,
                   score |-> selectedType.score,
                   speed2 |-> 2 * selectedType.speed + S.level,
                   lane |-> laneIndex,
                   y2 |-> SpawnY2 ]
  IN  [S EXCEPT !.items = Append(@, newItem)]

\* spawnLoop with the delay not floored
spawnLoop_noFloor(S, laneDraw, typeDraw) ==
  IF ~S.isGameActive THEN S
  ELSE LET spawnRate == 3000 - (S.level * 400)
           S1 == spawnItem(S, laneDraw, typeDraw)
           id == NewTimerId(S1)
       IN  [Emit(S1, "setTimeout", spawnRate, "")
              EXCEPT !.itemSpawnTimer = id, !.timeouts = @ \cup {id}]

spawnLoop(S, laneDraw, typeDraw) ==
  IF ~S.isGameActive THEN S
  ELSE LET spawnRate == Max(800, 3000 - (S.level * 400))
           S1 == spawnItem(S, laneDraw, typeDraw)
           id == NewTimerId(S1)
       IN  [Emit(S1, "setTimeout", spawnRate, "")
              EXCEPT !.itemSpawnTimer = id, !.timeouts = @ \cup {id}]

RECURSIVE updateFrom(_, _)
\* the loop of updateItems, from index i down to 1, on the item list its
updateFrom(its, i) ==
  IF i = 0 THEN its
  ELSE LET moved == [its EXCEPT ![i].y2 = @ + its[i].speed2]
       IN  IF moved[i].y2 > PlayAreaHeight2
           THEN updateFrom(RemoveAt(moved, i), i - 1)
           ELSE updateFrom(moved, i - 1)

RECURSIVE updateUpFrom(_, _)
\* the loop of updateItems run from the first index upwards
updateUpFrom(its, i) ==
  IF i > Len(its) THEN its
  ELSE LET moved == [its EXCEPT ![i].y2 = @ + its[i].speed2]
       IN  IF moved[i].y2 > PlayAreaHeight2
           THEN updateUpFrom(RemoveAt(moved, i), i + 1)
           ELSE updateUpFrom(moved, i + 1)

\* updateItems with the loop run upwards, so that a removal skips the next item
updateItems_upwards(S) == [S EXCEPT !.items = updateUpFrom(@, 1)]

updateItems(S) == [S EXCEPT !.items = updateFrom(@, Len(@))]

\* addScore with onScoreChange invoked before the level is raised
addScore_notifyFirst(S, points) ==
  LET S1 == Emit([S EXCEPT !.score = @ + points], "score", 0, "")
      newLevel == (S1.score \div LevelStep) + 1
  IN  IF newLevel > S1.level THEN [S1 EXCEPT !.level = newLevel] ELSE S1

\* addScore with the level computed without the + 1
addScore_levelOff(S, points) ==
  LET S1 == [S EXCEPT !.score = @ + points]
      newLevel == S1.score \div LevelStep
      S2 == IF newLevel > S1.level THEN [S1 EXCEPT !.level = newLevel] ELSE S1
  IN  Emit(S2, "score", 0, "")

addScore(S, points) ==
  LET S1 == [S EXCEPT !.score = @ + points]
      newLevel == (S1.score \div LevelStep) + 1
      S2 == IF newLevel > S1.level THEN [S1 EXCEPT !.level = newLevel] ELSE S1
  IN  Emit(S2, "score", 0, "")

\* handleItemCollection without the bomb branch
handleItemCollection_noBomb(S, item) ==
  addScore([Emit(S, "collect", item.id, item.type) EXCEPT !.touched = TRUE], item.score)

handleItemCollection(S, item) ==
  LET S0 == [Emit(S, "collect", item.id, item.type) EXCEPT !.touched = TRUE]
  IN  IF item.type = "bomb"
      THEN Emit(stop(S0), "alert", item.id, item.type)
      ELSE addScore(S0, item.score)

RECURSIVE collideFrom(_, _)
\* the loop of checkCollisions, from index i down to 1
collideFrom(S, i) ==
  IF i = 0 THEN S
  ELSE LET item == S.items[i]
       IN  IF Abs(item.y2 - catcherY2) < hitRange2 /\ item.lane = S.basketPosition
           THEN LET S1 == handleItemCollection(S, item)
                IN  collideFrom([S1 EXCEPT !.items = RemoveAt(@, i)], i - 1)
           ELSE collideFrom(S, i - 1)

\* checkCollisions with the loop started one index too low
checkCollisions_skipLast(S) == collideFrom(S, Max(0, Len(S.items) - 1))

checkCollisions(S) == collideFrom(S, Len(S.items))

gameLoop(S) ==
  IF ~S.isGameActive THEN S
  ELSE LET S1 == notifyStateUpdate(checkCollisions(updateItems(S)))
           id == NewFrameId(S1)
       IN  [S1 EXCEPT !.animationId = id, !.frames = @ \cup {id}]

\* start without the clearing of the item list
start_keepItems(S, cfg, laneDraw, typeDraw) ==
  LET given == IF cfg = {} THEN 0 ELSE CHOOSE n \in cfg : TRUE
      S1 == [S EXCEPT !.isGameActive = TRUE, !.score = 0, !.level = 1,
                      !.timeLimit = IF given = 0 THEN DefaultTimeLimit ELSE given,
                      !.basketPosition = 1,
                      !.stopCalled = FALSE, !.frozen = NoSnapshot, !.ends = << >>,
                      !.config = cfg, !.firings = 0, !.touched = FALSE, !.ticks = 0,
                      !.nStarts = @ + 1]
      S2 == IF S1.timeLimit > 0 THEN startTimer(S1) ELSE S1
  IN  notifyStateUpdate(gameLoop(spawnLoop(S2, laneDraw, typeDraw)))

start(S, cfg, laneDraw, typeDraw) ==
  LET given == IF cfg = {} THEN 0 ELSE CHOOSE n \in cfg : TRUE
      S1 == [S EXCEPT !.isGameActive = TRUE, !.score = 0, !.level = 1,
                      !.timeLimit = IF given = 0 THEN DefaultTimeLimit ELSE given,
                      !.basketPosition = 1, !.items = << >>,
                      !.stopCalled = FALSE, !.frozen = NoSnapshot, !.ends = << >>,
                      !.config = cfg, !.firings = 0, !.touched = FALSE, !.ticks = 0,
                      !.nStarts = @ + 1]
      S2 == IF S1.timeLimit > 0 THEN startTimer(S1) ELSE S1
  IN  notifyStateUpdate(gameLoop(spawnLoop(S2, laneDraw, typeDraw)))

\* onPoseDetected without the test of the active flag
onPoseDetected_always(S, detectedPose) ==
  IF detectedPose = "Left" THEN [S EXCEPT !.basketPosition = 0]
  ELSE IF detectedPose = "Center" THEN [S EXCEPT !.basketPosition = 1]
  ELSE IF detectedPose = "Right" THEN [S EXCEPT !.basketPosition = 2]
  ELSE S

onPoseDetected(S, detectedPose) ==
  IF ~S.isGameActive THEN S
  ELSE IF detectedPose = "Left" THEN [S EXCEPT !.basketPosition = 0]
  ELSE IF detectedPose = "Center" THEN [S EXCEPT !.basketPosition = 1]
  ELSE IF detectedPose = "Right" THEN [S EXCEPT !.basketPosition = 2]
  ELSE S

---------------------------------------------------------------------------
(* The state after construction and the actions *)

Init ==
  /\ score = 0
  /\ level = 1
  /\ timeLimit = 0
  /\ isGameActive = FALSE
  /\ gameTimer = Null
  /\ basketPosition = 1
  /\ items = << >>
  /\ animationId = Null
  /\ itemSpawnTimer = Null
  /\ intervals = {}
  /\ timeouts = {}
  /\ frames = {}
  /\ op = "constructor"
  /\ out = << >>
  /\ ends = << >>
  /\ stopCalled = FALSE
  /\ frozen = NoSnapshot
  /\ config = {}
  /\ nStarts = 0
  /\ firings = 0
  /\ touched = FALSE
  /\ ticks = 0
  /\ base = 0
  /\ stack = << >>
  /\ thrown = ""

\* the game played at length
LongGame == nStarts = 1 /\ config \in { {}, {LateLimit} }

\* gameEngine.start(config), called from outside
Start ==
  /\ nStarts < MaxStarts
  /\ \E cfg \in Configs, laneDraw \in LaneDraws, typeDraw \in TypeDraws :
        Commit(start(Cur, cfg, laneDraw, typeDraw))
  /\ op' = "start"

\* gameEngine.stop(), called from outside (the long game is left to end by itself)
Stop ==
  /\ Len(ends) < MaxEnds
  /\ ~(LongGame /\ isGameActive)
  /\ Commit(stop([Cur EXCEPT !.touched = TRUE]))
  /\ op' = "stop"
 

\* the host fires an installed countdown interval
TimerFire ==
  /\ ~LongGame
  /\ firings < MaxFirings
  /\ intervals # {}
  /\ Commit(countdown(Cur))
  /\ op' = "countdown"
 

\* the host fires a pending spawn timeout
SpawnFire ==
  /\ Len(items) < MaxItems
  /\ items # << >> => items[Len(items)].y2 = SpawnY2
  /\ score <= 100 * MaxScore100
  /\ \E t \in timeouts, laneDraw \in LaneDraws, typeDraw \in TypeDraws :
        Commit(spawnLoop([Cur EXCEPT !.timeouts = @ \ {t}], laneDraw, typeDraw))
  /\ op' = "spawnLoop"
 

\* the host fires a pending animation frame
FrameFire ==
  /\ LongGame \/ ~isGameActive \/ ticks < MaxFrames
  /\ \E id \in frames :
        Commit(gameLoop([Cur EXCEPT !.frames = @ \ {id},
                                    !.ticks = IF LongGame \/ ~isGameActive THEN @ ELSE @ + 1]))
  /\ op' = "gameLoop"
 

\* the input source reports a pose
PoseDetected ==
  /\ \E p \in Poses : Commit(onPoseDetected(Cur, p))
  /\ op' = "onPoseDetected"
 

Next == Start \/ Stop \/ TimerFire \/ SpawnFire \/ FrameFire \/ PoseDetected

Spec == Init /\ [][Next]_vars

---------------------------------------------------------------------------
(* The same engine observed from the middle of a game: started once with    *)
(* timeLimit LateLimit, half of the time gone, level l reached with the     *)
(* least score that gives it, nothing falling, and its three loops pending. *)

LateLevels == (1..MaxLateLevel) \cup {FastLevel}

LateInit ==
  \E l \in LateLevels :
     /\ score = LevelStep * (l - 1)
     /\ level = l
     /\ timeLimit = LateLimit \div 2
     /\ isGameActive = TRUE
     /\ gameTimer = 1
     /\ basketPosition = 1
     /\ items = << >>
     /\ animationId = 1
     /\ itemSpawnTimer = 2
     /\ intervals = {1}
     /\ timeouts = {2}
     /\ frames = {1}
     /\ op = "gameLoop"
     /\ out = << [ ev |-> "state", score |-> LevelStep * (l - 1), level |-> l,
                    time |-> LateLimit \div 2, active |-> TRUE, late |-> FALSE,
                    arg |-> 0, type |-> "" ] >>
     /\ ends = << >>
     /\ stopCalled = FALSE
     /\ frozen = NoSnapshot
     /\ config = {LateLimit}
     /\ nStarts = 1
     /\ firings = LateLimit - (LateLimit \div 2)
     /\ touched = (l > 1)
     /\ ticks = 0
     /\ base = LevelStep * (l - 1)
     /\ stack = << >>
     /\ thrown = ""

\* the host fires a pending spawn timeout of the game observed from its middle
LateSpawnFire ==
  /\ Len(items) < MaxItems
  /\ items # << >> => items[Len(items)].y2 = SpawnY2
  /\ score <= base + 100 * MaxLateGain100
  /\ \E t \in timeouts, laneDraw \in LaneDraws, typeDraw \in TypeDraws :
        Commit(spawnLoop([Cur EXCEPT !.timeouts = @ \ {t}], laneDraw, typeDraw))
  /\ op' = "spawnLoop"

LateNext == LateSpawnFire \/ FrameFire \/ PoseDetected

SpecLate == LateInit /\ [][LateNext]_vars

---------------------------------------------------------------------------
(* The engine with its callbacks wired as main.js wires them: onGameEnd     *)
(* alerts and calls the application's stop(), which calls gameEngine.stop(). *)
(* A handler is now a chain of calls, followed one call at a time on stack;  *)
(* no handler starts while another is on the stack.  Each of the three       *)
(* functions makes its call on every path before it reaches its end, so an   *)
(* entry leaves the stack only when the call above it has come back.         *)

Constructed ==
  [ score |-> 0, level |-> 1, timeLimit |-> 0,
    isGameActive |-> FALSE, gameTimer |-> Null,
    basketPosition |-> 1, items |-> << >>,
    animationId |-> Null, itemSpawnTimer |-> Null,
    intervals |-> {}, timeouts |-> {}, frames |-> {},
    out |-> << >>, ends |-> << >>, stopCalled |-> FALSE, frozen |-> NoSnapshot,
    config |-> {}, nStarts |-> 0, firings |-> 0, touched |-> FALSE,
    ticks |-> 0, stack |-> << >>, thrown |-> "",
    seenIds |-> {} ]

\* a call of f: a new entry on the stack, or a RangeError that unwinds the whole stack
\* (nothing on it catches) when the stack is full
Call(S, f) ==
  IF Len(S.stack) >= MaxStack
  THEN [S EXCEPT !.stack = << >>, !.thrown = "RangeError"]
  ELSE [S EXCEPT !.stack = Append(@, f)]

\* init() of main.js has run: gameEngine.start({ timeLimit: 60 })
WiredInit ==
  \E laneDraw \in LaneDraws, typeDraw \in TypeDraws :
     LET S == start(Constructed, {DefaultTimeLimit}, laneDraw, typeDraw)
     IN  /\ score = S.score
         /\ level = S.level
         /\ timeLimit = S.timeLimit
         /\ isGameActive = S.isGameActive
         /\ gameTimer = S.gameTimer
         /\ basketPosition = S.basketPosition
         /\ items = S.items
         /\ animationId = S.animationId
         /\ itemSpawnTimer = S.itemSpawnTimer
         /\ intervals = S.intervals
         /\ timeouts = S.timeouts
         /\ frames = S.frames
         /\ op = "start"
         /\ out = S.out
         /\ ends = S.ends
         /\ stopCalled = S.stopCalled
         /\ frozen = S.frozen
         /\ config = S.config
         /\ nStarts = S.nStarts
         /\ firings = S.firings
         /\ touched = S.touched
         /\ ticks = S.ticks
         /\ base = 0
         /\ stack = S.stack
         /\ thrown = S.thrown

\* the stop button: the application's stop() is entered
AppStop ==
  /\ stack = << >> /\ thrown = ""
  /\ Commit(Call(Cur, "stop"))
  /\ op' = "stop"

\* the host fires the countdown interval: the callback of startTimer up to its call
\* of this.stop()
WiredTimerFire ==
  /\ stack = << >> /\ thrown = ""
  /\ intervals # {}
  /\ LET S1 == [Cur EXCEPT !.timeLimit = @ - 1, !.firings = @ + 1]
         S2 == notifyStateUpdate(S1)
     IN  Commit(IF S2.timeLimit <= 0 THEN Call(S2, "countdown") ELSE S2)
  /\ op' = "countdown"

\* the innermost call (the application's stop() or the countdown callback) calls
\* gameEngine.stop(), which runs up to its invocation of onGameEnd
EngineStop ==
  /\ stack # << >> /\ stack[Len(stack)] \in {"stop", "countdown"}
  /\ LET S1 == Call(Cur, "GameEngine.stop")
     IN  Commit(IF S1.thrown # "" THEN S1 ELSE Call(stop(S1), "onGameEnd"))
  /\ op' = "GameEngine.stop"

\* the game-end callback of setupGameCallbacks: alert, then the application's stop()
EndCallback ==
  /\ stack # << >> /\ stack[Len(stack)] = "onGameEnd"
  /\ Commit(Call(Emit(Cur, "alert", 0, ""), "stop"))
  /\ op' = "onGameEnd"

WiredNext == AppStop \/ WiredTimerFire \/ EngineStop \/ EndCallback

SpecWired == WiredInit /\ [][WiredNext]_vars

---------------------------------------------------------------------------
(* Properties *)

ItemIds(its) == { its[i].id : i \in DOMAIN its }

InHitBand(item) == Abs(item.y2 - catcherY2) < hitRange2

\* the timeLimit given to the latest start(), 0 if none was given
Given == IF config = {} THEN 0 ELSE CHOOSE n \in config : TRUE

\* C1: once stop() has been called, no state-update notification is emitted until the
\* next start().  Stated for runs with at most one start(), where it already fails:
\* the physics tick that collects a bomb emits its notification after stop().
C1_NoUpdateAfterStop ==
  nStarts <= 1 => \A i \in DOMAIN out : out[i].ev = "state" => ~out[i].late

\* C2: while the engine is stopped, score, level, items, basket lane and remaining
\* time keep the values they had when the active flag became false, the rest of the
\* tick that called stop() included.  Stated for runs with at most one start().
C2_FrozenWhileStopped ==
  nStarts <= 1 => ((~isGameActive /\ stopCalled) => Snapshot(Cur) = frozen)

\* C3: after stop() no spawn timeout, animation frame or countdown interval is
\* pending once the handler that called stop() has finished.  Stated for runs with
\* at most one start().
C3_NothingPendingAfterStop ==
  nStarts <= 1 => (stopCalled => frames = {} /\ timeouts = {} /\ intervals = {})

\* C4: after start({timeLimit: 0}) no countdown is scheduled and none ever fires.
C4_ZeroIsUnlimited ==
  (nStarts = 1 /\ config = {0}) => (gameTimer = Null /\ intervals = {} /\ firings = 0)

\* C5: after a single start() with timeLimit T > 0, while no item is collected and
\* nobody calls stop(), the engine is active with T - k seconds left after k < T
\* countdown firings, and the T-th firing stops it with 0 seconds left and one end
\* notification carrying score 0 and level 1.
C5_StopsOnTthFiring ==
  (nStarts = 1 /\ Given > 0 /\ ~touched) =>
     /\ firings <= Given
     /\ firings < Given => isGameActive /\ timeLimit = Given - firings /\ ends = << >>
     /\ firings = Given => ~isGameActive /\ timeLimit = 0 /\ ends = << <<0, 1>> >>

C5_Witness ==
  nStarts = 1 /\ config = {2} /\ ~touched /\ firings = 2 /\ ~isGameActive

\* C6: the collection of a bomb is followed at once by the end notification, emitted
\* by an inactive engine with the score and level held when the bomb was collected;
\* the score is still that one when the handler returns and the engine ends inactive.
C6_BombEndsGame ==
  \A i \in DOMAIN out :
     (out[i].ev = "collect" /\ out[i].type = "bomb") =>
        /\ i + 2 <= Len(out)
        /\ out[i + 1].ev = "end" /\ ~out[i + 1].active
        /\ out[i + 1].score = out[i].score /\ out[i + 1].level = out[i].level
        /\ out[i + 2].ev = "alert" /\ out[i + 2].score = out[i].score
        /\ ~isGameActive
        /\ ends # << >> /\ ends[Len(ends)] = << out[i].score, out[i].level >>

C6_Witness ==
  \E i \in DOMAIN out : out[i].ev = "collect" /\ out[i].type = "bomb" /\ out[i].score >= 1000

\* C7: the score is a non-negative integer, level = floor(score / 500) + 1, and the
\* level never decreases except by a start().
C7_ScoreLevel ==
  /\ [](score \in Nat /\ level = (score \div LevelStep) + 1)
  /\ [][op' = "start" \/ level' >= level]_vars

C7_Witness == level = 3 /\ score >= 1000 /\ op = "gameLoop"

RECURSIVE SumScores(_, _)
\* the score values of the items of its at the indices of idx, added up
SumScores(its, idx) ==
  IF idx = {} THEN 0
  ELSE LET i == CHOOSE j \in idx : TRUE
       IN  its[i].score + SumScores(its, idx \ {i})

\* C8: in a physics tick of an active engine, every item that after the advance is in
\* the basket's lane inside the hit band is handed to the collection handler exactly
\* once and is gone from the item list when the tick ends, the score has grown by
\* exactly the values of these items, and the falling items have distinct ids.
C8_CollectedOnce ==
  [][ (op' = "gameLoop" /\ isGameActive) =>
        LET moved == updateFrom(items, Len(items))
            hit == { i \in DOMAIN moved :
                       InHitBand(moved[i]) /\ moved[i].lane = basketPosition }
        IN  /\ \A i \in hit :
                 /\ Cardinality({ k \in DOMAIN out' :
                        out'[k].ev = "collect" /\ out'[k].arg = moved[i].id }) = 1
                 /\ moved[i].id \notin ItemIds(items')
            /\ Cardinality({ k \in DOMAIN out' : out'[k].ev = "collect" }) = Cardinality(hit)
            /\ score' = score + SumScores(moved, hit)
            /\ Cardinality(ItemIds(items')) = Len(items') ]_vars

C8_Witness ==
  /\ op = "gameLoop"
  /\ \E i, j \in DOMAIN out : i < j /\ out[i].ev = "collect" /\ out[j].ev = "collect"

\* C9: start() called in any state leaves score 0, level 1, the basket in the centre
\* lane and the engine active, and no item that was in the list before the call.
C9_StartResets ==
  [][ op' = "start" =>
        /\ score' = 0 /\ level' = 1 /\ basketPosition' = 1 /\ isGameActive'
        /\ ItemIds(items') \cap ItemIds(items) = {} ]_vars

C9_Witness ==
  op = "start" /\ nStarts = 2 /\ Cardinality(frames) = 2 /\ Cardinality(timeouts) = 2

\* C10: a stop() that follows a stop() with no start() in between changes neither the
\* engine's fields nor the scheduled callbacks, and invokes the end callback once
\* more with the (score, level) of the previous end notification.
C10_SecondStopChangesNothing ==
  [][ (op' = "stop" /\ stopCalled) =>
        /\ UNCHANGED << isGameActive, score, level, items, basketPosition, timeLimit,
                        gameTimer, animationId, itemSpawnTimer,
                        intervals, timeouts, frames >>
        /\ Len(out') = 1 /\ out'[1].ev = "end"
        /\ ends' = Append(ends, ends[Len(ends)]) ]_vars

\* C11: onPoseDetected called on a stopped engine changes nothing; called on an active
\* engine it sets the basket lane to 0, 1, 2 for Left, Center, Right and changes
\* nothing for any other name; in every case it changes no other field, schedules or
\* cancels nothing and invokes no callback.  The basket lane is always 0, 1 or 2.
C11_PoseFrame ==
  /\ [](basketPosition \in {0, 1, 2})
  /\ [](\A p \in Poses :
          onPoseDetected(Cur, p) =
            IF ~isGameActive THEN Cur
            ELSE IF p = "Left" THEN [Cur EXCEPT !.basketPosition = 0]
            ELSE IF p = "Center" THEN [Cur EXCEPT !.basketPosition = 1]
            ELSE IF p = "Right" THEN [Cur EXCEPT !.basketPosition = 2]
            ELSE Cur)
  /\ [][ op' = "onPoseDetected" =>
          /\ UNCHANGED << score, level, timeLimit, isGameActive, gameTimer, items,
                          animationId, itemSpawnTimer, intervals, timeouts, frames, ends >>
          /\ out' = << >>
          /\ ~isGameActive => basketPosition' = basketPosition ]_vars

C11_Witness ==
  /\ op = "onPoseDetected" /\ basketPosition = 2 /\ isGameActive /\ items # << >>

\* the categories a spawn can produce in the current state, over all draws
Spawnable ==
  { spawnItem(Cur, laneDraw, typeDraw).items[Len(items) + 1].type :
      laneDraw \in LaneDraws, typeDraw \in TypeDraws }

\* C12: a spawn-loop firing of an active engine adds one item whose category is apple if
\* the level at that moment is below 2 and apple or orange if it is 2; at every level
\* from 3 on each of apple, orange and bomb is produced by some draw, at level 2 apple
\* and orange are, and below 2 only apple.
C12_SpawnGating ==
  /\ [](isGameActive =>
          Spawnable = IF level < 2 THEN {"apple"}
                      ELSE IF level = 2 THEN {"apple", "orange"}
                      ELSE {"apple", "orange", "bomb"})
  /\ [][ (op' = "spawnLoop" /\ isGameActive) =>
          /\ Len(items') = Len(items) + 1
          /\ SubSeq(items', 1, Len(items)) = items
          /\ items'[Len(items')].type \in Spawnable
          /\ level < 2 => items'[Len(items')].type = "apple"
          /\ level = 2 => items'[Len(items')].type # "bomb" ]_vars

C12_Witness ==
  /\ op = "spawnLoop" /\ level = 2 /\ Len(items) = 2
  /\ items[1].type = "orange" /\ items[2].type = "apple"

\* the score value of a category
ScoreOf(type) == (CHOOSE k \in DOMAIN itemTypes : itemTypes[k].type = type)

\* C13: every collection of a non-bomb item is followed at once by one onScoreChange
\* carrying the score grown by exactly the item's value and the level
\* max(level before, floor(score / 500) + 1), and onScoreChange fires for nothing else;
\* from score 0 and level 1, 600 points give score 600, level 2 and onScoreChange(600, 2).
C13_AddScore ==
  /\ \A k \in DOMAIN out :
        (out[k].ev = "collect" /\ out[k].type # "bomb") =>
           /\ k + 1 <= Len(out)
           /\ out[k + 1].ev = "score"
           /\ out[k + 1].score = out[k].score + itemTypes[ScoreOf(out[k].type)].score
           /\ out[k + 1].level = Max(out[k].level, (out[k + 1].score \div LevelStep) + 1)
  /\ \A k \in DOMAIN out :
        out[k].ev = "score" =>
           k > 1 /\ out[k - 1].ev = "collect" /\ out[k - 1].type # "bomb"
  /\ (out # << >> /\ out[Len(out)].ev = "score") =>
        score = out[Len(out)].score /\ level = out[Len(out)].level
  /\ LET S == addScore([Cur EXCEPT !.score = 0, !.level = 1], 600)
     IN  /\ S.score = 600 /\ S.level = 2
         /\ S.out = << Event("score", S, 0, "") >>

C13_Witness ==
  \E k \in DOMAIN out :
     /\ out[k].ev = "collect" /\ out[k].type = "orange"
     /\ k < Len(out) /\ out[k + 1].level > out[k].level

\* the items of its, each advanced by its speed
Advanced(its) == [ i \in DOMAIN its |-> [its[i] EXCEPT !.y2 = @ + its[i].speed2] ]

\* C14: in a physics tick of an active engine every item that is beyond 600 after the
\* advance is gone from the list when the tick ends and was not handed to the collection
\* handler; the list that remains is, in order, the advanced items at 600 or less that
\* were not collected; onScoreChange and the end notification fire once per collected
\* item and not at all when none is collected, and then score and level are unchanged.
C14_EscapedItems ==
  [][ (op' = "gameLoop" /\ isGameActive) =>
        LET adv == Advanced(items)
            gone == { i \in DOMAIN adv : adv[i].y2 > PlayAreaHeight2 }
            hit == { i \in DOMAIN adv : InHitBand(adv[i]) /\ adv[i].lane = basketPosition }
            Kept(it) == /\ it.y2 <= PlayAreaHeight2
                        /\ ~(InHitBand(it) /\ it.lane = basketPosition)
        IN  /\ \A i \in gone :
                 /\ adv[i].id \notin ItemIds(items')
                 /\ \A k \in DOMAIN out' : out'[k].ev = "collect" => out'[k].arg # adv[i].id
            /\ items' = SelectSeq(adv, Kept)
            /\ Cardinality({ k \in DOMAIN out' : out'[k].ev \in {"score", "end"} })
                  = Cardinality(hit)
            /\ hit = {} => score' = score /\ level' = level /\ ends' = ends ]_vars

C14_Witness ==
  /\ op = "gameLoop" /\ isGameActive /\ nStarts = 1 /\ ~touched
  /\ items = << >> /\ score = 0 /\ basketPosition = 0

\* the delay a spawn-loop firing of an active engine at level lvl asks of setTimeout
DelayAt(lvl) ==
  LET S == spawnLoop([Cur EXCEPT !.isGameActive = TRUE, !.level = lvl],
                     CHOOSE d \in LaneDraws : TRUE, CHOOSE d \in TypeDraws : TRUE)
  IN  S.out[Len(S.out)].arg

\* C15: every spawn-loop firing of an active engine reschedules itself once, with the
\* delay max(800, 3000 - 400 * level) for the level held when the firing began; that
\* delay is never below 800 and is not larger at the next level than at the current one.
C15_SpawnDelay ==
  /\ [](DelayAt(level) >= 800 /\ DelayAt(level + 1) <= DelayAt(level))
  /\ [][ (op' = "spawnLoop" /\ isGameActive) =>
          /\ Len(out') = 1 /\ out'[1].ev = "setTimeout"
          /\ out'[1].arg = Max(800, 3000 - 400 * level)
          /\ out'[1].arg = DelayAt(level)
          /\ Cardinality(timeouts') = Cardinality(timeouts) ]_vars

C15_Witness ==
  /\ op = "spawnLoop" /\ level = 6 /\ out # << >>
  /\ out[1].ev = "setTimeout" /\ out[1].arg = 800

\* C16: a start() that follows a stop() leaves exactly one animation frame and one spawn
\* timeout pending and at most one countdown interval installed.
C16_OneLoopEach ==
  [][ (op' = "start" /\ stopCalled /\ ~isGameActive) =>
        /\ Cardinality(frames') = 1
        /\ Cardinality(timeouts') = 1
        /\ Cardinality(intervals') <= 1 ]_vars

\* C17: in a game begun by a single start(), a callback of the engine's own loops
\* (physics tick, countdown, spawn loop) invokes the end callback exactly once if it
\* ends the game and not at all otherwise.
C17_EndOnce ==
  [][ (nStarts' = 1 /\ op' \in {"gameLoop", "countdown", "spawnLoop"}) =>
        Len(ends') = Len(ends) + (IF isGameActive /\ ~isGameActive' THEN 1 ELSE 0) ]_vars

\* C18: with the callbacks wired as in main.js, no call of gameEngine.stop() ends in
\* the exhaustion of the call stack: the chain of calls it starts comes to an end by
\* returning.
C18_StopReturns == thrown = ""

\* C19: the remaining time held by the engine and the one reported in every state
\* notification are never negative, and an active game that was started with a
\* negative timeLimit has its countdown installed.
C19_TimeNonNegative ==
  /\ timeLimit >= 0
  /\ \A k \in DOMAIN out : out[k].ev = "state" => out[k].time >= 0
  /\ (Given < 0 /\ isGameActive) => intervals # {}

\* C20: no physics tick of an active engine carries an item of the basket's lane from
\* above the hit band (y <= 470) to below it (y >= 530), so that an item whose lane
\* the basket keeps is inside the band at the collision check of some tick.
C20_NoTunnelling ==
  [][ (op' = "gameLoop" /\ isGameActive) =>
        \A i \in DOMAIN items :
           (items[i].lane = basketPosition /\ items[i].y2 <= catcherY2 - hitRange2) =>
              Advanced(items)[i].y2 < catcherY2 + hitRange2 ]_vars

====
